---- MODULE Spec2Model ----
(***************************************************************************)
(* The per-connection driver of swarm/src/connection.rs: Connection::poll  *)
(* as a priority ladder over requested_substreams, the handler,            *)
(* negotiating_out, negotiating_in, the keep-alive evaluation, the         *)
(* shutdown check and the muxer, with SubstreamRequested and               *)
(* SubstreamUpgrade as timed futures.                                      *)
(*                                                                         *)
(* Time is a discrete clock `now`.  A Delay is the instant at which it     *)
(* fires: Delay::new(d) at instant t is t + d, and polling it is Ready iff *)
(* now >= that instant.  A FuturesUnordered is a set; poll_next returns    *)
(* any element whose poll is Ready, and iteration order is arbitrary.      *)
(***************************************************************************)
EXTENDS Integers, Sequences, FiniteSets, TLC

\* ------------------------------------------------------------------ bounds
MaxTime == 2      \* the clock runs over 0..MaxTime
MaxDur == 1       \* upgrade timeouts are 1..MaxDur clock units
MaxReq == 2       \* OutboundSubstreamRequests the handler yields in a run
MaxOpened == 2    \* inbound substreams the remote opens in a run
MaxCap == 1       \* max_negotiating_inbound_streams ranges over 0..MaxCap
MaxCapS1 == 3     \* the same range in the max_negotiating_inbound_streams test
MaxVal == 1       \* distinct opaque payloads (addresses, events, errors)
MaxCallers == 3   \* threads that call ConnectionId::next()
MaxIds == 4       \* ConnectionId::next() calls in a run

VARIABLES
    now,                              \* Instant::now()
    pc,                               \* position of the driver in poll's ladder
    result,                           \* what the last poll call returned
    requested_substreams,             \* FuturesUnordered<SubstreamRequested>
    negotiating_out,                  \* FuturesUnordered<SubstreamUpgrade> (outbound)
    negotiating_in,                   \* FuturesUnordered<SubstreamUpgrade> (inbound)
    shutdown,                         \* Shutdown
    keep_alive,                       \* the local `keep_alive` of the current pass
    max_negotiating_inbound_streams,
    supported_protocols,
    handler,                          \* what the ConnectionHandler has been told so far
    connection_event,                 \* the ConnectionEvent the last driver step handed over
    muxing,                           \* the StreamMuxerBox
    postponed,                        \* history: a planned shutdown is being postponed
    resolved,                         \* history: upgrades that completed, oldest first
    handler_event,                    \* what handler.poll returned last in this poll call
    next_connection_id,               \* static NEXT_CONNECTION_ID: AtomicUsize
    allocated                         \* history: the ConnectionId::next() calls, in order

vars == <<now, pc, result, requested_substreams, negotiating_out, negotiating_in,
          shutdown, keep_alive, max_negotiating_inbound_streams,
          supported_protocols, handler, connection_event, muxing, postponed,
          resolved, handler_event, next_connection_id, allocated>>

\* ------------------------------------------------------------ poll results
ResNone == [kind |-> "none", what |-> "", val |-> 0]
Pending == [kind |-> "Pending", what |-> "", val |-> 0]
ReadyOk(what, val) == [kind |-> "Ok", what |-> what, val |-> val]
\* Mutant of the error result: the error value is not handed on.
ReadyErr_LosesError(what, val) == [kind |-> "Err", what |-> what, val |-> 0]

ReadyErr(what, val) == [kind |-> "Err", what |-> what, val |-> val]
KeepAliveTimeout == ReadyErr("KeepAliveTimeout", 0)

\* ---------------------------------------------------------------- Shutdown
ShutdownNone == [kind |-> "None"]
ShutdownAsap == [kind |-> "Asap"]
ShutdownLater(timer, deadline) == [kind |-> "Later", timer |-> timer, deadline |-> deadline]

\* --------------------------------------------------------------- KeepAlive
KeepAliveYes == [kind |-> "Yes"]
KeepAliveNo == [kind |-> "No"]
KeepAliveUntil(t) == [kind |-> "Until", t |-> t]
NoKeepAlive == [kind |-> "unset"]

\* The handler asks for the connection to end: KeepAlive::No, or
\* KeepAlive::Until an instant that has passed at instant t.
WantsShutdown(ka, t) == ka.kind = "No" \/ (ka.kind = "Until" /\ ka.t < t)
KeepAlives == {KeepAliveYes, KeepAliveNo} \cup {KeepAliveUntil(t) : t \in 0..MaxTime}

\* Mutant of the Delay: it fires only after its instant has passed.
DelayReady_Late(timer, t) == t > timer

\* ------------------------------------------------------------------ Delay
\* Future::poll of a Delay that fires at instant `timer`.
DelayReady(timer, t) == t >= timer

\* ------------------------------------------------------ SubstreamRequested
\* SubstreamRequested::new: the timeout starts ticking at once.  `queued`
\* is the element's place in the FuturesUnordered ready-to-run queue (a
\* pushed future is queued), `extracted_waker` is TRUE for Some(waker).
SubstreamRequestedNew(user_data, timeout, t) ==
    [user_data |-> user_data, timeout |-> t + timeout, state |-> "Waiting",
     extracted_waker |-> FALSE, queued |-> TRUE]

\* Mutants of extract: the element is left Waiting; the waker is not woken.
Extract_StaysWaiting(r) == [r EXCEPT !.queued = r.queued \/ r.extracted_waker]
Extract_NoWake(r) == [r EXCEPT !.state = "Done", !.extracted_waker = FALSE]

\* SubstreamRequested::extract on a Waiting element: it becomes Done and the
\* stored waker, if any, is woken, which queues the element again.
Extract(r) ==
    [r EXCEPT !.state = "Done",
              !.queued = r.queued \/ r.extracted_waker,
              !.extracted_waker = FALSE]

\* Whether FuturesUnordered polls the element: it is queued, or its Delay
\* (which holds the waker since the first poll) has fired and woken it.
Runnable(r, t) ==
    r.queued \/ (r.state = "Waiting" /\ r.extracted_waker /\ DelayReady(r.timeout, t))

\* Mutants of poll: the timeout is not polled; Done resolves with Err.
SubstreamRequestedPoll_NoTimeout(r, t) == IF r.state = "Waiting" THEN "Pending" ELSE "Ok"
SubstreamRequestedPoll_DoneErr(r, t) ==
    IF r.state = "Waiting" /\ ~DelayReady(r.timeout, t) THEN "Pending" ELSE "Err"

\* SubstreamRequested::poll: the output of polling element r at instant t.
SubstreamRequestedPoll(r, t) ==
    IF r.state = "Waiting"
    THEN IF DelayReady(r.timeout, t) THEN "Err" ELSE "Pending"
    ELSE "Ok"

\* The element after a poll that returned Pending: the waker is stored.
SubstreamRequestedPolled(r, t) ==
    IF Runnable(r, t) /\ SubstreamRequestedPoll(r, t) = "Pending"
    THEN [r EXCEPT !.extracted_waker = TRUE, !.queued = FALSE]
    ELSE r

\* -------------------------------------------------------- SubstreamUpgrade
\* Mutant of new_outbound: the upgrade gets a further period of its own.
NewOutbound_Restarted(user_data, timeout) ==
    [user_data |-> user_data, timeout |-> timeout + MaxDur, upgrade |-> "pending"]

\* SubstreamUpgrade::new_outbound keeps the Delay of the request.
NewOutbound(user_data, timeout) ==
    [user_data |-> user_data, timeout |-> timeout, upgrade |-> "pending"]

\* SubstreamUpgrade::new_inbound starts a Delay of the protocol's timeout and
\* builds the upgrade from the protocol.
NewInbound(user_data, protocol, t) ==
    [user_data |-> user_data, timeout |-> t + protocol.timeout, upgrade |-> "pending",
     protocol |-> protocol.protocols]

\* Mutant of poll: the timeout is not polled.
SubstreamUpgradePoll_NoTimeout(u, t) ==
    IF u.upgrade = "ok" THEN "Ok"
    ELSE IF u.upgrade = "err" THEN "Upgrade"
    ELSE "Pending"

\* Mutant of poll: the upgrade is polled before the timeout.
SubstreamUpgradePoll_UpgradeFirst(u, t) ==
    IF u.upgrade = "ok" THEN "Ok"
    ELSE IF u.upgrade = "err" THEN "Upgrade"
    ELSE IF DelayReady(u.timeout, t) THEN "Timeout"
    ELSE "Pending"

\* SubstreamUpgrade::poll: the timeout first, then the upgrade.
SubstreamUpgradePoll(u, t) ==
    IF DelayReady(u.timeout, t) THEN "Timeout"
    ELSE IF u.upgrade = "ok" THEN "Ok"
    ELSE IF u.upgrade = "err" THEN "Upgrade"
    ELSE "Pending"

\* ------------------------------------------------------- protocol names
\* A protocol name is a number whose order is the byte order of the name;
\* 0 stands for a name that is not UTF-8.
IsUtf8(name) == name > 0

RECURSIVE Insert(_, _)
Insert(x, s) ==
    IF s = <<>> THEN <<x>>
    ELSE IF x <= Head(s) THEN <<x>> \o s
    ELSE <<Head(s)>> \o Insert(x, Tail(s))

RECURSIVE Sort(_)
Sort(s) == IF s = <<>> THEN <<>> ELSE Insert(Head(s), Sort(Tail(s)))

\* Mutants of the protocol list: not filtered; not sorted.
NewProtocols_Unfiltered(protocol) == Sort(protocol.protocols)
NewProtocols_Unsorted(protocol) == SelectSeq(protocol.protocols, IsUtf8)

\* protocol_info().filter_map(from_utf8).collect(), then sort().
NewProtocols(protocol) == Sort(SelectSeq(protocol.protocols, IsUtf8))

ProtocolLists == {<<2>>, <<2, 1>>, <<0, 1>>}
\* The handler's listen_protocol(): the names, the timeout and the info for
\* the substream.  Info 0 stands for a tag the handler never gave before.
ListenProtocols ==
    {[protocols |-> p, timeout |-> d, info |-> 0] : p \in ProtocolLists, d \in 1..MaxDur}

\* The user data of the inbound upgrade that `protocol` opens at handler h.
InboundOpenInfo(protocol, h) ==
    IF protocol.info = 0 THEN Len(h.listen) + 1 ELSE protocol.info

\* The handler's count of events starts at 0 for the substream tagged info.
InboundOpened(h, info) ==
    IF info \in DOMAIN h.listen
    THEN [h EXCEPT !.listen[info] = 0]
    ELSE [h EXCEPT !.listen = Append(@, 0)]

\* ---------------------------------------------------------------- handler
\* The ConnectionEvents of handler.on_connection_event.  `info` is the user
\* data of the substream (0 when the event has none).
ConnectionEvent(event, info, error, protocols, address) ==
    [event |-> event, info |-> info, error |-> error, protocols |-> protocols,
     address |-> address]
NoEvent == ConnectionEvent("none", 0, "", <<>>, 0)
DialUpgradeError(info, error) == ConnectionEvent("DialUpgradeError", info, error, <<>>, 0)
FullyNegotiatedOutbound(info) == ConnectionEvent("FullyNegotiatedOutbound", info, "", <<>>, 0)
ListenUpgradeError(info, error) == ConnectionEvent("ListenUpgradeError", info, error, <<>>, 0)
FullyNegotiatedInbound(info) == ConnectionEvent("FullyNegotiatedInbound", info, "", <<>>, 0)
ProtocolsChange(protocols) == ConnectionEvent("ProtocolsChange", 0, "", protocols, 0)
\* Mutant of the address change: the handler is not told.
AddressChange_NotToHandler(address) == NoEvent

AddressChange(address) == ConnectionEvent("AddressChange", 0, "", <<>>, address)

\* Mutant of the handler: a ProtocolsChange is not taken note of.
OnConnectionEvent_IgnoresProtocols(h, e) ==
    IF e.event \in {"DialUpgradeError", "FullyNegotiatedOutbound"}
    THEN [h EXCEPT !.dial[e.info] = @ + 1]
    ELSE IF e.event \in {"ListenUpgradeError", "FullyNegotiatedInbound"}
    THEN [h EXCEPT !.listen[e.info] = @ + 1]
    ELSE h

\* ConnectionHandler::on_connection_event: the handler counts the events it
\* gets for each outbound request and each inbound substream, and keeps the
\* protocols last reported to it.
OnConnectionEvent(h, e) ==
    IF e.event \in {"DialUpgradeError", "FullyNegotiatedOutbound"}
    THEN [h EXCEPT !.dial[e.info] = @ + 1]
    ELSE IF e.event \in {"ListenUpgradeError", "FullyNegotiatedInbound"}
    THEN [h EXCEPT !.listen[e.info] = @ + 1]
    ELSE IF e.event = "ProtocolsChange"
    THEN [h EXCEPT !.reported_protocols = e.protocols]
    ELSE h

\* ConnectionHandler::poll results.
HandlerPending == [kind |-> "Pending", val |-> 0]
HandlerEvents ==
    {HandlerPending}
    \cup {[kind |-> "OutboundSubstreamRequest", val |-> d] : d \in 1..MaxDur}
    \cup {[kind |-> k, val |-> v] : k \in {"Custom", "Close"}, v \in 1..MaxVal}
\* The handler has not been polled yet in this poll call.
NotPolled == [kind |-> "unset", val |-> 0]

\* ------------------------------------------------------------------ muxer
MuxerPending == [kind |-> "Pending", val |-> 0]
MuxerEvents ==
    {MuxerPending, [kind |-> "Err", val |-> 0]}
    \cup {[kind |-> "AddressChange", val |-> a] : a \in 1..MaxVal}

\* StreamMuxer::poll_inbound: the tests' DummyStreamMuxer is always Ready
\* with a new substream, and so is a muxer that is always ready; any other
\* muxer is Ready when the remote has opened a substream that was not
\* accepted yet.
MuxerPollInbound(m) ==
    IF m.kind \in {"DummyStreamMuxer", "AlwaysReady"} \/ (m.kind = "Any" /\ m.inbound > 0)
    THEN "Ready" ELSE "Pending"

\* StreamMuxer::poll_outbound of a muxer whose answer is fixed: the tests'
\* DummyStreamMuxer and PendingStreamMuxer are Pending, a muxer that is
\* always ready is Ready.
MuxerPollOutbound(m) == IF m.kind = "AlwaysReady" THEN "Ready" ELSE "Pending"

\* A muxer whose answers are fixed gives the answer `fixed` and has no
\* error; any other muxer may answer anything.
MuxerAnswers(m, ans, fixed) == m.kind = "Any" \/ ans = fixed

\* ------------------------------------------- the order of completion
\* `resolved` lists the upgrades of both collections whose upgrade future
\* has completed with a stream, in the order of completion.  An entry is
\* marked overtaken when the handler is given the stream of an upgrade of
\* the other collection that completed after it.
UpgradeCompleted(q, dir, u) ==
    Append(q, [dir |-> dir, user_data |-> u.user_data, overtaken |-> FALSE])

IsEntry(e, dir, u) == e.dir = dir /\ e.user_data = u.user_data

UpgradeRemoved(q, dir, u, fully_negotiated) ==
    LET before(i) == \E k \in (i + 1)..Len(q) : IsEntry(q[k], dir, u)
        marked == [i \in 1..Len(q) |->
                     IF fully_negotiated /\ q[i].dir # dir /\ before(i)
                     THEN [q[i] EXCEPT !.overtaken = TRUE]
                     ELSE q[i]]
    IN SelectSeq(marked, LAMBDA e : ~IsEntry(e, dir, u))

\* ------------------------------------------------------------ the driver
\* Mutants of the cap test: off by one, either way.
InboundAdmissible_LE(len, max) == len <= max
InboundAdmissible_Short(len, max) == len + 1 < max

\* Line 356: whether poll asks the muxer for an inbound substream.
InboundAdmissible(len, max) == len < max

\* Mutant of the idle test: requested_substreams is not looked at.
Idle_IgnoresRequested(nin, nout, req) == nin = {} /\ nout = {}

\* Lines 311-313: no substream is requested or negotiating.
Idle(nin, nout, req) == nin = {} /\ nout = {} /\ req = {}

\* Lines 315-324: whether the shutdown check terminates the connection.
ShutdownFires(s, t) ==
    IF s.kind = "Asap" THEN TRUE
    ELSE IF s.kind = "Later" THEN DelayReady(s.timer, t)
    ELSE FALSE

\* Mutant of the plan: the answer Yes does not drop a Later plan.
KeepAlivePlan_KeepsLater(s, ka, t) ==
    IF ka.kind = "No" THEN ShutdownAsap
    ELSE IF ka.kind = "Yes" /\ s.kind # "Later" THEN ShutdownNone
    ELSE IF ka.kind = "Until" /\ ka.t >= t THEN ShutdownLater(ka.t, ka.t)
    ELSE s

\* Mutant of the plan: a new deadline does not reset the timer.
KeepAlivePlan_NoReset(s, ka, t) ==
    IF ka.kind = "Until"
    THEN IF s.kind = "Later"
         THEN ShutdownLater(s.timer, ka.t)
         ELSE IF ka.t >= t THEN ShutdownLater(ka.t, ka.t) ELSE s
    ELSE IF ka.kind = "No" THEN ShutdownAsap
    ELSE ShutdownNone

\* Lines 291-307: the plan after the handler answered ka at instant t.
\* checked_duration_since is Some(d) iff the deadline is not before t, and
\* Delay::new(d) or timer.reset(d) then fires at t + d = the deadline.
KeepAlivePlan(s, ka, t) ==
    IF ka.kind = "Until"
    THEN IF s.kind = "Later"
         THEN IF s.deadline # ka.t
              THEN IF ka.t >= t
                   THEN ShutdownLater(ka.t, ka.t)
                   ELSE ShutdownLater(s.timer, ka.t)
              ELSE s
         ELSE IF ka.t >= t THEN ShutdownLater(ka.t, ka.t) ELSE s
    ELSE IF ka.kind = "No" THEN ShutdownAsap
    ELSE ShutdownNone

InitWith(caps, muxers) ==
    /\ now = 0
    /\ pc = "idle"
    /\ result = ResNone
    /\ requested_substreams = {}
    /\ negotiating_out = {}
    /\ negotiating_in = {}
    /\ shutdown = ShutdownNone
    /\ keep_alive = NoKeepAlive
    /\ max_negotiating_inbound_streams \in caps
    /\ supported_protocols = <<>>
    /\ handler = [dial |-> <<>>, listen |-> <<>>, reported_protocols |-> <<>>]
    /\ connection_event = NoEvent
    /\ muxing \in {[kind |-> k, inbound |-> 0, opened |-> 0] : k \in muxers}
    /\ postponed = FALSE
    /\ resolved = <<>>
    /\ handler_event = NotPolled
    /\ next_connection_id = 1
    /\ allocated = <<>>

\* Connection::new, over any muxer and over the tests' PendingStreamMuxer.
Init == InitWith(0..MaxCap, {"Any", "PendingStreamMuxer"})

\* handler.on_connection_event(e), and a step that hands no event over.
Deliver(e) == handler' = OnConnectionEvent(handler, e) /\ connection_event' = e
NoDelivery == handler' = handler /\ connection_event' = NoEvent

\* Mutant of `continue`: the ladder is taken up again below the handler.
Continue_SkipsHandler == "neg_out"

\* `continue` in the loop of poll: the ladder is taken up again at its top.
Continue == "requested"

\* A call of Connection::poll enters the loop.
Poll ==
    /\ pc = "idle"
    /\ pc' = "requested"
    /\ result' = ResNone
    /\ handler_event' = NotPolled
    /\ NoDelivery
    /\ UNCHANGED <<next_connection_id, allocated,
                   resolved, now, requested_substreams, negotiating_out, negotiating_in,
                   shutdown, keep_alive, max_negotiating_inbound_streams,
                   supported_protocols, muxing, postponed>>

\* Lines 221-233: requested_substreams.poll_next_unpin.
PollRequested ==
    /\ pc = "requested"
    /\ LET ready == {r \in requested_substreams :
                        Runnable(r, now) /\ SubstreamRequestedPoll(r, now) # "Pending"}
       IN IF ready # {}
          THEN \E r \in ready :
                 /\ requested_substreams' = requested_substreams \ {r}
                 /\ IF SubstreamRequestedPoll(r, now) = "Err"
                    THEN Deliver(DialUpgradeError(r.user_data, "Timeout"))
                    ELSE NoDelivery
                 /\ pc' = Continue
          ELSE /\ requested_substreams' =
                     {SubstreamRequestedPolled(r, now) : r \in requested_substreams}
               /\ NoDelivery
               /\ pc' = "handler"
    /\ UNCHANGED <<handler_event, next_connection_id, allocated,
                   resolved, now, result, negotiating_out, negotiating_in, shutdown, keep_alive,
                   max_negotiating_inbound_streams, supported_protocols, muxing, postponed>>

\* Lines 236-251: handler.poll.
PollHandler(ev) ==
    /\ pc = "handler"
    /\ IF ev.kind = "OutboundSubstreamRequest"
       THEN /\ Len(handler.dial) < MaxReq
            /\ requested_substreams' = requested_substreams \cup
                   {SubstreamRequestedNew(Len(handler.dial) + 1, ev.val, now)}
            /\ handler' = [handler EXCEPT !.dial = Append(@, 0)]
            /\ pc' = Continue
            /\ result' = result
       ELSE /\ requested_substreams' = requested_substreams
            /\ handler' = handler
            /\ pc' = IF ev.kind = "Pending" THEN "neg_out"
                     ELSE IF ev.kind = "Custom" THEN "idle" ELSE "closed"
            /\ result' = IF ev.kind = "Pending" THEN result
                         ELSE IF ev.kind = "Custom" THEN ReadyOk("Handler", ev.val)
                         ELSE ReadyErr("Handler", ev.val)
    /\ handler_event' = ev
    /\ connection_event' = NoEvent
    /\ postponed' = (postponed /\ ev.kind = "Pending")
    /\ UNCHANGED <<next_connection_id, allocated,
                   resolved, now, negotiating_out, negotiating_in, shutdown, keep_alive,
                   max_negotiating_inbound_streams, supported_protocols, muxing>>

\* Lines 254-268: negotiating_out.poll_next_unpin.
PollNegotiatingOut ==
    /\ pc = "neg_out"
    /\ LET ready == {u \in negotiating_out : SubstreamUpgradePoll(u, now) # "Pending"}
       IN IF ready # {}
          THEN \E u \in ready :
                 /\ negotiating_out' = negotiating_out \ {u}
                 /\ resolved' = UpgradeRemoved(resolved, "out", u,
                                               SubstreamUpgradePoll(u, now) = "Ok")
                 /\ Deliver(IF SubstreamUpgradePoll(u, now) = "Ok"
                            THEN FullyNegotiatedOutbound(u.user_data)
                            ELSE DialUpgradeError(u.user_data, SubstreamUpgradePoll(u, now)))
                 /\ pc' = Continue
          ELSE /\ negotiating_out' = negotiating_out
               /\ resolved' = resolved
               /\ NoDelivery
               /\ pc' = "neg_in"
    /\ UNCHANGED <<handler_event, next_connection_id, allocated,
                   now, result, requested_substreams, negotiating_in, shutdown, keep_alive,
                   max_negotiating_inbound_streams, supported_protocols, muxing, postponed>>

\* Mutant of the inbound rung: a failed upgrade is returned to the caller.
PollNegotiatingIn_Surfaces ==
    /\ pc = "neg_in"
    /\ LET ready == {u \in negotiating_in : SubstreamUpgradePoll(u, now) # "Pending"}
       IN IF ready # {}
          THEN \E u \in ready :
                 /\ negotiating_in' = negotiating_in \ {u}
                 /\ resolved' = UpgradeRemoved(resolved, "in", u,
                                               SubstreamUpgradePoll(u, now) = "Ok")
                 /\ IF SubstreamUpgradePoll(u, now) = "Ok"
                    THEN /\ Deliver(FullyNegotiatedInbound(u.user_data))
                         /\ pc' = Continue
                         /\ result' = result
                    ELSE /\ NoDelivery
                         /\ pc' = "closed"
                         /\ result' = ReadyErr("Upgrade", 0)
          ELSE /\ negotiating_in' = negotiating_in
               /\ resolved' = resolved
               /\ NoDelivery
               /\ pc' = "keep_alive"
               /\ result' = result
    /\ UNCHANGED <<handler_event, next_connection_id, allocated,
                   now, requested_substreams, negotiating_out, shutdown, keep_alive,
                   max_negotiating_inbound_streams, supported_protocols, muxing, postponed>>

\* Lines 272-286: negotiating_in.poll_next_unpin.
PollNegotiatingIn ==
    /\ pc = "neg_in"
    /\ LET ready == {u \in negotiating_in : SubstreamUpgradePoll(u, now) # "Pending"}
       IN IF ready # {}
          THEN \E u \in ready :
                 /\ negotiating_in' = negotiating_in \ {u}
                 /\ resolved' = UpgradeRemoved(resolved, "in", u,
                                               SubstreamUpgradePoll(u, now) = "Ok")
                 /\ Deliver(IF SubstreamUpgradePoll(u, now) = "Ok"
                            THEN FullyNegotiatedInbound(u.user_data)
                            ELSE ListenUpgradeError(u.user_data, SubstreamUpgradePoll(u, now)))
                 /\ pc' = Continue
          ELSE /\ negotiating_in' = negotiating_in
               /\ resolved' = resolved
               /\ NoDelivery
               /\ pc' = "keep_alive"
    /\ UNCHANGED <<handler_event, next_connection_id, allocated,
                   now, result, requested_substreams, negotiating_out, shutdown, keep_alive,
                   max_negotiating_inbound_streams, supported_protocols, muxing, postponed>>

\* Lines 290-307: handler.connection_keep_alive() and the new plan.
KeepAliveEval(ka) ==
    /\ pc = "keep_alive"
    /\ keep_alive' = ka
    /\ shutdown' = KeepAlivePlan(shutdown, ka, now)
    /\ pc' = "shutdown"
    /\ NoDelivery
    /\ UNCHANGED <<handler_event, next_connection_id, allocated,
                   resolved, now, result, requested_substreams, negotiating_out, negotiating_in,
                   max_negotiating_inbound_streams, supported_protocols, muxing, postponed>>

\* Lines 311-325: the shutdown check.
ShutdownCheck ==
    /\ pc = "shutdown"
    /\ IF Idle(negotiating_in, negotiating_out, requested_substreams)
          /\ ShutdownFires(shutdown, now)
       THEN /\ result' = KeepAliveTimeout
            /\ pc' = "closed"
            /\ keep_alive' = keep_alive
       ELSE /\ result' = result
            /\ pc' = "muxer"
            /\ keep_alive' = NoKeepAlive
    /\ postponed' =
          IF ~WantsShutdown(keep_alive, now) THEN FALSE
          ELSE IF ~Idle(negotiating_in, negotiating_out, requested_substreams) THEN TRUE
          ELSE postponed
    /\ NoDelivery
    /\ UNCHANGED <<handler_event, next_connection_id, allocated,
                   resolved, now, requested_substreams, negotiating_out, negotiating_in, shutdown,
                   max_negotiating_inbound_streams, supported_protocols, muxing>>

\* Lines 327-335: muxing.poll_unpin.
PollMuxer(ev) ==
    /\ pc = "muxer"
    /\ MuxerAnswers(muxing, ev, MuxerPending)
    /\ IF ev.kind = "AddressChange"
       THEN /\ Deliver(AddressChange(ev.val))
            /\ result' = ReadyOk("AddressChange", ev.val)
            /\ pc' = "idle"
       ELSE /\ NoDelivery
            /\ result' = IF ev.kind = "Err" THEN ReadyErr("IO", 0) ELSE result
            /\ pc' = IF ev.kind = "Err" THEN "closed" ELSE "outbound"
    /\ UNCHANGED <<handler_event, next_connection_id, allocated,
                   resolved, now, requested_substreams, negotiating_out, negotiating_in, shutdown,
                   keep_alive, max_negotiating_inbound_streams, supported_protocols, muxing, postponed>>

\* Lines 337-354: the first requested substream, muxing.poll_outbound_unpin,
\* extract and the push into negotiating_out.
PollOutbound(ans) ==
    /\ pc = "outbound"
    /\ MuxerAnswers(muxing, ans, MuxerPollOutbound(muxing))
    /\ IF requested_substreams = {} \/ ans = "Pending"
       THEN /\ pc' = "inbound"
            /\ UNCHANGED <<result, requested_substreams, negotiating_out>>
       ELSE IF ans = "Err"
       THEN /\ pc' = "closed"
            /\ result' = ReadyErr("IO", 0)
            /\ UNCHANGED <<requested_substreams, negotiating_out>>
       ELSE \E r \in requested_substreams :
              IF r.state = "Done"
              THEN /\ pc' = "panic"      \* "cannot extract twice"
                   /\ UNCHANGED <<result, requested_substreams, negotiating_out>>
              ELSE /\ requested_substreams' =
                          (requested_substreams \ {r}) \cup {Extract(r)}
                   /\ negotiating_out' = negotiating_out \cup
                          {NewOutbound(r.user_data, r.timeout)}
                   /\ pc' = Continue
                   /\ result' = result
    /\ NoDelivery
    /\ UNCHANGED <<handler_event, next_connection_id, allocated,
                   resolved, now, negotiating_in, shutdown, keep_alive,
                   max_negotiating_inbound_streams, supported_protocols, muxing, postponed>>

\* Lines 356-384: muxing.poll_inbound_unpin under the cap, listen_protocol,
\* ProtocolsChange and the push into negotiating_in; line 386: Pending.
PollInbound(io_err, protocol) ==
    /\ pc = "inbound"
    /\ MuxerAnswers(muxing, io_err, FALSE)
    /\ IF ~InboundAdmissible(Cardinality(negotiating_in), max_negotiating_inbound_streams)
          \/ (~io_err /\ MuxerPollInbound(muxing) = "Pending")
       THEN /\ pc' = "idle"
            /\ result' = Pending
            /\ NoDelivery
            /\ UNCHANGED <<negotiating_in, supported_protocols, muxing>>
       ELSE IF io_err
       THEN /\ pc' = "closed"
            /\ result' = ReadyErr("IO", 0)
            /\ NoDelivery
            /\ UNCHANGED <<negotiating_in, supported_protocols, muxing>>
       ELSE /\ muxing' = [muxing EXCEPT
                             !.inbound = IF muxing.kind = "Any" THEN @ - 1 ELSE @]
            /\ LET h == InboundOpened(handler, InboundOpenInfo(protocol, handler))
               IN IF supported_protocols # NewProtocols(protocol)
                  THEN /\ handler' = OnConnectionEvent(h, ProtocolsChange(NewProtocols(protocol)))
                       /\ connection_event' = ProtocolsChange(NewProtocols(protocol))
                       /\ supported_protocols' = NewProtocols(protocol)
                  ELSE /\ handler' = h
                       /\ connection_event' = NoEvent
                       /\ supported_protocols' = supported_protocols
            /\ negotiating_in' = negotiating_in \cup
                   {NewInbound(InboundOpenInfo(protocol, handler), protocol, now)}
            /\ pc' = Continue
            /\ result' = result
    /\ UNCHANGED <<handler_event, next_connection_id, allocated,
                   resolved, now, requested_substreams, negotiating_out, shutdown, keep_alive,
                   max_negotiating_inbound_streams, postponed>>

\* Connection::close consumes the driver between two polls.
Close ==
    /\ pc = "idle"
    /\ pc' = "closed"
    /\ result' = [kind |-> "closed", what |-> "", val |-> 0]
    /\ NoDelivery
    /\ UNCHANGED <<handler_event, next_connection_id, allocated,
                   resolved, now, requested_substreams, negotiating_out, negotiating_in, shutdown,
                   keep_alive, max_negotiating_inbound_streams, supported_protocols, muxing, postponed>>

\* ------------------------------------------------------------ environment
Live == pc \notin {"closed", "panic"}

\* The clock advances.
Tick ==
    /\ Live
    /\ now < MaxTime
    /\ now' = now + 1
    /\ UNCHANGED <<handler_event, next_connection_id, allocated,
                   resolved, pc, result, requested_substreams, negotiating_out, negotiating_in,
                   shutdown, keep_alive, max_negotiating_inbound_streams,
                   supported_protocols, handler, connection_event, muxing, postponed>>

\* The upgrade future inside a SubstreamUpgrade completes.
UpgradeProgress(outcome) ==
    /\ Live
    /\ \E u \in negotiating_out \cup negotiating_in :
          /\ u.upgrade = "pending"
          /\ IF u \in negotiating_out
             THEN /\ negotiating_out' =
                         (negotiating_out \ {u}) \cup {[u EXCEPT !.upgrade = outcome]}
                  /\ negotiating_in' = negotiating_in
             ELSE /\ negotiating_in' =
                         (negotiating_in \ {u}) \cup {[u EXCEPT !.upgrade = outcome]}
                  /\ negotiating_out' = negotiating_out
          /\ resolved' = IF outcome # "ok" THEN resolved
                         ELSE UpgradeCompleted(resolved,
                                  IF u \in negotiating_out THEN "out" ELSE "in", u)
    /\ UNCHANGED <<handler_event, next_connection_id, allocated,
                   now, pc, result, requested_substreams, shutdown, keep_alive,
                   max_negotiating_inbound_streams, supported_protocols, handler,
                   connection_event, muxing, postponed>>

\* The remote opens an inbound substream on the muxer.
RemoteOpen ==
    /\ Live
    /\ muxing.kind = "Any"
    /\ muxing.opened < MaxOpened
    /\ muxing' = [muxing EXCEPT !.opened = @ + 1, !.inbound = @ + 1]
    /\ UNCHANGED <<handler_event, next_connection_id, allocated,
                   resolved, now, pc, result, requested_substreams, negotiating_out, negotiating_in,
                   shutdown, keep_alive, max_negotiating_inbound_streams,
                   supported_protocols, handler, connection_event, postponed>>

Next ==
    \/ Poll
    \/ PollRequested
    \/ \E ev \in HandlerEvents : PollHandler(ev)
    \/ PollNegotiatingOut
    \/ PollNegotiatingIn
    \/ \E ka \in KeepAlives : KeepAliveEval(ka)
    \/ ShutdownCheck
    \/ \E ev \in MuxerEvents : PollMuxer(ev)
    \/ \E ans \in {"Pending", "Ready", "Err"} : PollOutbound(ans)
    \/ \E io_err \in BOOLEAN, protocol \in ListenProtocols : PollInbound(io_err, protocol)
    \/ Close
    \/ Tick
    \/ \E outcome \in {"ok", "err"} : UpgradeProgress(outcome)
    \/ RemoteOpen

Spec == Init /\ [][Next]_vars

\* ------------------------------------- tests::max_negotiating_inbound_streams
\* DummyStreamMuxer, keep_alive::ConnectionHandler (poll is Pending, keep-alive
\* is Yes, the listen protocol names nothing) and PendingSubstream, on which
\* no upgrade completes and whose timeout lies beyond the run.
InitS1 == InitWith(0..MaxCapS1, {"DummyStreamMuxer"})

ListenProtocolS1 == [protocols |-> <<>>, timeout |-> MaxTime + 1, info |-> 0]

DriverS1 ==
    \/ Poll
    \/ PollRequested
    \/ PollHandler(HandlerPending)
    \/ PollNegotiatingOut
    \/ PollNegotiatingIn
    \/ KeepAliveEval(KeepAliveYes)
    \/ ShutdownCheck
    \/ PollMuxer(MuxerPending)
    \/ PollOutbound("Pending")
    \/ PollInbound(FALSE, ListenProtocolS1)

NextS1 == DriverS1 \/ Tick

\* The caller polls, and a poll call runs to its return.
SpecS1 == InitS1 /\ [][NextS1]_vars /\ WF_vars(DriverS1)

\* ------------------------------------------------- a muxer always ready
\* A connection with cap 1 over a muxer that is always ready with an inbound
\* and with an outbound substream.  The handler answers Pending or, at most
\* MaxReq times, with an OutboundSubstreamRequest, gives every inbound
\* substream the same info, and keeps the connection alive; upgrades
\* complete or fail whenever they like.
InitS29 == InitWith({1}, {"AlwaysReady"})

ListenProtocolS29 == [protocols |-> <<>>, timeout |-> MaxDur, info |-> 1]

DriverS29 ==
    \/ Poll
    \/ PollRequested
    \/ \E d \in 0..MaxDur :
          PollHandler(IF d = 0 THEN HandlerPending
                      ELSE [kind |-> "OutboundSubstreamRequest", val |-> d])
    \/ PollNegotiatingOut
    \/ PollNegotiatingIn
    \/ KeepAliveEval(KeepAliveYes)
    \/ ShutdownCheck
    \/ PollMuxer(MuxerPending)
    \/ PollOutbound("Ready")
    \/ PollInbound(FALSE, ListenProtocolS29)

NextS29 ==
    \/ DriverS29
    \/ Tick
    \/ \E outcome \in {"ok", "err"} : UpgradeProgress(outcome)

\* The caller polls, and the driver goes on within a poll call.
SpecS29 == InitS29 /\ [][NextS29]_vars /\ WF_vars(DriverS29)

\* --------------------------------------------------- idle keep-alive expiry
\* An idle connection over a muxer that yields nothing, whose handler is
\* Pending and answers KeepAlive::Until(until) for one fixed instant.
InitS4 ==
    /\ now = 0
    /\ pc = "idle"
    /\ result = ResNone
    /\ requested_substreams = {}
    /\ negotiating_out = {}
    /\ negotiating_in = {}
    /\ shutdown = ShutdownNone
    /\ keep_alive = NoKeepAlive
    /\ max_negotiating_inbound_streams \in 0..MaxCap
    /\ supported_protocols = <<>>
    /\ handler \in {[dial |-> <<>>, listen |-> <<>>, reported_protocols |-> <<>>,
                     until |-> t] : t \in 1..MaxTime}
    /\ connection_event = NoEvent
    /\ muxing \in {[kind |-> k, inbound |-> 0, opened |-> 0] :
                       k \in {"Any", "PendingStreamMuxer"}}
    /\ postponed = FALSE
    /\ resolved = <<>>
    /\ handler_event = NotPolled
    /\ next_connection_id = 1
    /\ allocated = <<>>

DriverS4 ==
    \/ Poll
    \/ PollRequested
    \/ PollHandler(HandlerPending)
    \/ PollNegotiatingOut
    \/ PollNegotiatingIn
    \/ KeepAliveEval(KeepAliveUntil(handler.until))
    \/ ShutdownCheck
    \/ PollMuxer(MuxerPending)
    \/ PollOutbound("Pending")
    \/ PollInbound(FALSE, ListenProtocolS1)

NextS4 == DriverS4 \/ Tick

SpecS4 == InitS4 /\ [][NextS4]_vars /\ WF_vars(DriverS4)

\* ----------------------------------------------------------- ConnectionId
\* Lines 54-84.  The callers of ConnectionId::next() run concurrently; each
\* call is one fetch_add on the static counter, which SeqCst makes a single
\* step in one total order.  A run makes at most MaxIds calls, far fewer
\* than the 2^64 (2^32 on 32-bit targets) after which the usize wraps.
Callers == 1..MaxCallers

\* Mutant of the counter: the value is read but the sum is not stored.
FetchAdd_LoadOnly(value, n) == value

\* AtomicUsize::fetch_add: the value the counter holds afterwards.
FetchAdd(value, n) == value + n

\* ConnectionId::next() called by thread c.
ConnectionIdNext(c) ==
    /\ Len(allocated) < MaxIds
    /\ allocated' = Append(allocated, [caller |-> c, id |-> next_connection_id])
    /\ next_connection_id' = FetchAdd(next_connection_id, 1)
    /\ UNCHANGED <<now, pc, result, requested_substreams, negotiating_out,
                   negotiating_in, shutdown, keep_alive,
                   max_negotiating_inbound_streams, supported_protocols, handler,
                   connection_event, muxing, postponed, resolved, handler_event>>

InitId == InitWith({0}, {"PendingStreamMuxer"})
NextId == \E c \in Callers : ConnectionIdNext(c)
SpecId == InitId /\ [][NextId]_vars

\* ================================================================= claims
Expired(r) == r.state = "Waiting" /\ DelayReady(r.timeout, now)
Removed(r) == \A q \in requested_substreams' : q.user_data # r.user_data
NonIdle == requested_substreams # {} \/ negotiating_in # {} \/ negotiating_out # {}

\* C1: in every reachable state the number of inbound upgrades in
\* negotiating_in is at most max_negotiating_inbound_streams (none with cap 0).
C1_NegotiatingInWithinCap ==
    Cardinality(negotiating_in) <= max_negotiating_inbound_streams

\* A poll returned Pending with the cap reached and a further inbound
\* substream waiting in the muxer.
C1_Witness ==
    /\ pc = "idle" /\ result = Pending
    /\ max_negotiating_inbound_streams > 0
    /\ Cardinality(negotiating_in) = max_negotiating_inbound_streams
    /\ muxing.inbound > 0

\* C2: a shutdown check made while requested_substreams, negotiating_in or
\* negotiating_out is non-empty never returns KeepAliveTimeout, whatever the
\* plan and the keep-alive answer are: the ladder goes on to the muxer.
C2_ShutdownPostponed ==
    [][(pc = "shutdown" /\ pc' # "shutdown" /\ NonIdle)
         => (result' # KeepAliveTimeout /\ pc' = "muxer")]_vars

\* The check has let a plan Asap pass because a request was still waiting.
C2_Witness ==
    /\ pc = "muxer"
    /\ shutdown = ShutdownAsap
    /\ requested_substreams # {} /\ negotiating_in = {} /\ negotiating_out = {}

\* C3: once a shutdown was postponed and the handler has stayed Pending and
\* kept answering KeepAlive::No or an Until that has passed, the shutdown
\* check that finds all three collections empty returns KeepAliveTimeout.
C3_PostponedShutdownActedUpon ==
    [][(/\ pc = "shutdown" /\ pc' # "shutdown"
        /\ postponed
        /\ WantsShutdown(keep_alive, now)
        /\ ~NonIdle)
         => result' = KeepAliveTimeout]_vars

\* C4: a request whose timeout has elapsed while it waits for the muxer is
\* resolved at the top of the ladder: it leaves requested_substreams with
\* DialUpgradeError{Timeout} carrying its user data, the first event for it,
\* and the ladder does not go on to the handler while such a request is left.
C4_RequestTimeoutDelivered ==
    [][/\ \A r \in requested_substreams :
             (Expired(r) /\ Removed(r))
                => /\ pc = "requested"
                   /\ connection_event' = DialUpgradeError(r.user_data, "Timeout")
                   /\ handler.dial[r.user_data] = 0
                   /\ handler'.dial[r.user_data] = 1
       /\ (pc = "requested" /\ pc' = "handler")
             => \A r \in requested_substreams' : ~DelayReady(r.timeout, now)]_vars

\* Over a muxer whose poll_outbound is always Pending the handler was told
\* DialUpgradeError{Timeout} for the request, which has left the set.
C4_Witness ==
    /\ muxing.kind = "PendingStreamMuxer"
    /\ connection_event = DialUpgradeError(1, "Timeout")
    /\ handler.dial[1] = 1
    /\ \A r \in requested_substreams : r.user_data # 1

\* C5: the handler gets at most one event (FullyNegotiatedOutbound or
\* DialUpgradeError) for each OutboundSubstreamRequest it yielded.
C5_AtMostOneEventPerRequest ==
    \A info \in DOMAIN handler.dial : handler.dial[info] <= 1

\* Two requests have been answered, the second one by the upgrade.
C5_Witness ==
    /\ Len(handler.dial) = 2
    /\ handler.dial[1] = 1 /\ handler.dial[2] = 1
    /\ connection_event = FullyNegotiatedOutbound(2)

\* C6: whenever the outbound step may pick an element of
\* requested_substreams, every element is Waiting, so extract never panics.
C6_NoExtractTwice ==
    /\ pc # "panic"
    /\ pc = "outbound" => \A r \in requested_substreams : r.state = "Waiting"

\* Two requests were queued and both were granted a substream; the second
\* one is Done and still in the set.
C6_Witness ==
    /\ pc = "requested"
    /\ Cardinality(negotiating_out) = 2
    /\ \E r \in requested_substreams : r.state = "Done"

C8_PollLeavesCapUpgrades ==
    /\ <>(pc = "idle" /\ result # ResNone)
    /\ []((pc = "idle" /\ result # ResNone)
            => (result = Pending
                /\ Cardinality(negotiating_in) = max_negotiating_inbound_streams))

\* The poll returned with the largest cap reached.
C8_Witness ==
    /\ pc = "idle" /\ result = Pending
    /\ max_negotiating_inbound_streams = MaxCapS1
    /\ Cardinality(negotiating_in) = MaxCapS1

\* C9: inbound substreams beyond the cap are rejected, not queued: when poll
\* returns Pending none is left waiting in the muxer.
C9_ExcessInboundRejected ==
    [][(pc = "inbound" /\ pc' = "idle") => muxing'.inbound = 0]_vars

\* C10: from plan None, KeepAlive::Until(t) makes the plan Later(new timer, t)
\* when t is in the future, and otherwise a plan on which the shutdown check
\* of an idle connection fires at once.
C10_UntilFromNone ==
    [][(/\ pc = "keep_alive" /\ pc' = "shutdown"
        /\ shutdown = ShutdownNone
        /\ keep_alive'.kind = "Until")
         => IF keep_alive'.t > now
            THEN shutdown' = ShutdownLater(keep_alive'.t, keep_alive'.t)
            ELSE ShutdownFires(shutdown', now)]_vars

\* C11: from plan Later(timer, d), an answer KeepAlive::Until(t) with t # d
\* and t <= now leaves a plan on which the shutdown check of an idle
\* connection fires at once, whether or not the old timer has elapsed.
C11_PastUntilFromLater ==
    [][(/\ pc = "keep_alive" /\ pc' = "shutdown"
        /\ shutdown.kind = "Later"
        /\ keep_alive'.kind = "Until"
        /\ keep_alive'.t # shutdown.deadline
        /\ keep_alive'.t <= now)
         => ShutdownFires(shutdown', now)]_vars

\* C12: the keep-alive evaluation maps Yes to plan None and No to plan Asap,
\* whatever the plan was before.
C12_YesNoDecidePlan ==
    [][(pc = "keep_alive" /\ pc' = "shutdown")
         => /\ keep_alive'.kind = "Yes" => shutdown'.kind = "None"
            /\ keep_alive'.kind = "No" => shutdown'.kind = "Asap"]_vars

\* The handler went from No to Yes: at instant 0 only the answer No makes a
\* check postpone a shutdown, so the plan was Asap, and it is None again.
C12_Witness ==
    /\ now = 0
    /\ pc = "shutdown"
    /\ postponed
    /\ keep_alive.kind = "Yes"
    /\ shutdown.kind = "None"

\* C13: an idle connection whose handler is Pending and answers
\* KeepAlive::Until(until), first while that instant is in the future (so
\* that the plan is Later): a poll call returns; its shutdown check lets it
\* go on, to return Pending, while the instant has not come, and returns
\* KeepAliveTimeout from the first check made at or after it.
C13_IdleKeepAliveExpiry ==
    /\ [][(pc = "shutdown" /\ pc' # "shutdown" /\ shutdown.kind = "Later")
            => IF now >= handler.until
               THEN pc' = "closed" /\ result' = KeepAliveTimeout
               ELSE pc' = "muxer" /\ result' = result]_vars
    /\ [][(pc = "inbound" /\ pc' # "inbound")
            => (pc' = "idle" /\ result' = Pending)]_vars
    /\ [](result \in {ResNone, Pending, KeepAliveTimeout})
    /\ [](pc = "requested" => <>(pc \in {"idle", "closed"}))

\* The plan was Later for the last instant of the clock, and the shutdown
\* check made at that instant returned KeepAliveTimeout.
C13_Witness ==
    /\ pc = "closed"
    /\ result = KeepAliveTimeout
    /\ handler.until = MaxTime
    /\ shutdown = ShutdownLater(MaxTime, MaxTime)
    /\ now = MaxTime

\* s is the ascending list of the UTF-8 names of the protocol list p (whose
\* names are distinct).
IsAscending(s) == \A i \in 1..(Len(s) - 1) : s[i] <= s[i + 1]
Utf8Names(p) == {p[i] : i \in DOMAIN p} \ {0}
IsSortedUtf8Of(s, p) ==
    /\ IsAscending(s)
    /\ {s[i] : i \in DOMAIN s} = Utf8Names(p)
    /\ Len(s) = Cardinality(Utf8Names(p))

\* The step that accepts an inbound substream.
Accepts == pc = "inbound" /\ pc' = "requested"

\* C14: when an inbound substream is accepted, ProtocolsChange is delivered
\* iff the sorted UTF-8 names of the handler's listen protocol differ from
\* supported_protocols; its payload is that sorted list, and
\* supported_protocols becomes it.
C14_ProtocolsChangeIffDifferent ==
    [][Accepts
         => \E u \in negotiating_in' \ negotiating_in :
              /\ negotiating_in' = negotiating_in \cup {u}
              /\ IF IsSortedUtf8Of(supported_protocols, u.protocol)
                 THEN /\ connection_event'.event = "none"
                      /\ supported_protocols' = supported_protocols
                      /\ handler'.reported_protocols = handler.reported_protocols
                 ELSE /\ connection_event'.event = "ProtocolsChange"
                      /\ IsSortedUtf8Of(connection_event'.protocols, u.protocol)
                      /\ supported_protocols' = connection_event'.protocols
                      /\ handler'.reported_protocols = connection_event'.protocols]_vars

\* The second substream was accepted under the protocols <<2, 1>>, which
\* differ from those of the first, and the handler was told <<1, 2>>.
C14_Witness ==
    /\ pc = "requested"
    /\ Len(handler.listen) = 2
    /\ connection_event.event = "ProtocolsChange"
    /\ connection_event.protocols = <<1, 2>>
    /\ \E u \in negotiating_in : u.user_data = 2 /\ u.protocol = <<2, 1>>

\* C15: supported_protocols is always ascending and equal to the payload of
\* the last ProtocolsChange the handler got (empty before the first), and
\* only the acceptance of an inbound substream changes it.
C15_SupportedProtocolsSorted ==
    /\ [](IsAscending(supported_protocols)
          /\ supported_protocols = handler.reported_protocols)
    /\ [][supported_protocols' # supported_protocols => Accepts]_vars

\* The protocols <<2, 1>> were reported, and are kept, as <<1, 2>>.
C15_Witness ==
    /\ supported_protocols = <<1, 2>>
    /\ handler.reported_protocols = <<1, 2>>
    /\ pc = "idle" /\ result = Pending

\* C16: when a substream is accepted under protocols that differ from the
\* last reported ones, the handler gets ProtocolsChange in that step, when it
\* has had no event for the substream, which was in no collection before;
\* and an event for an inbound substream is only delivered for an upgrade
\* that is in negotiating_in.
C16_ProtocolsChangeFirst ==
    /\ [][Accepts
            => \A u \in negotiating_in' \ negotiating_in :
                 ~IsSortedUtf8Of(handler.reported_protocols, u.protocol)
                   => /\ connection_event'.event = "ProtocolsChange"
                      /\ IsSortedUtf8Of(handler'.reported_protocols, u.protocol)
                      /\ u.user_data \notin DOMAIN handler.listen
                      /\ handler'.listen[u.user_data] = 0]_vars
    /\ [][\A i \in DOMAIN handler.listen :
             handler'.listen[i] # handler.listen[i]
               => /\ \E u \in negotiating_in : u.user_data = i
                  /\ connection_event'.event \in
                        {"FullyNegotiatedInbound", "ListenUpgradeError"}
                  /\ connection_event'.info = i]_vars

\* The first substream was accepted under the protocols <<0, 1>>: the handler
\* was told <<1>> and has had no event for the substream.
C16_Witness ==
    /\ pc = "requested"
    /\ Len(handler.listen) = 1
    /\ handler.listen[1] = 0
    /\ connection_event.event = "ProtocolsChange"
    /\ handler.reported_protocols = <<1>>
    /\ \E u \in negotiating_in : u.user_data = 1 /\ u.protocol = <<0, 1>>

\* An external input reaches the connection in this step: the handler gets
\* an event for a substream, or a substream enters a collection.
ExternalInput ==
    \/ /\ handler' # handler
       /\ connection_event'.event \in
             {"FullyNegotiatedOutbound", "FullyNegotiatedInbound",
              "DialUpgradeError", "ListenUpgradeError"}
    \/ \E u \in negotiating_out' : \A v \in negotiating_out : v.user_data # u.user_data
    \/ \E u \in negotiating_in' : \A v \in negotiating_in : v.user_data # u.user_data

\* C17 as stated: after an external input nothing happens to the requests
\* and no further event is delivered before the handler is polled.
C17_HandlerPolledNext ==
    [][(/\ pc = "requested"
        /\ connection_event.event \in
              {"FullyNegotiatedOutbound", "FullyNegotiatedInbound",
               "DialUpgradeError", "ListenUpgradeError"})
         => /\ handler' = handler
            /\ \A r \in requested_substreams : ~Removed(r)]_vars

\* C17 amended: every external input takes the ladder back to its top; from
\* the top the driver goes nowhere but to the handler, and before it polls
\* the handler it only resolves requests, telling the handler
\* DialUpgradeError{Timeout} for those whose timeout has fired.
C17_LadderRestartsAtTop ==
    /\ [][ExternalInput => pc' = "requested"]_vars
    /\ [][pc = "requested"
            => /\ pc' \in {"requested", "handler"}
               /\ handler' # handler
                    => \E r \in requested_substreams :
                         /\ Expired(r) /\ Removed(r)
                         /\ connection_event' = DialUpgradeError(r.user_data, "Timeout")
               /\ pc' = "handler"
                    => \A r \in requested_substreams' :
                         r.state = "Waiting" /\ ~DelayReady(r.timeout, now)]_vars

\* The handler was told FullyNegotiatedInbound, and at the top of the ladder
\* there is a request whose timeout has fired: it is resolved before the
\* handler is polled.
C17_Witness ==
    /\ pc = "requested"
    /\ connection_event.event = "FullyNegotiatedInbound"
    /\ \E r \in requested_substreams : Expired(r)

\* C18: the handler gets FullyNegotiatedInbound and FullyNegotiatedOutbound
\* in the order in which the upgrades completed: the stream it is given
\* never belongs to an upgrade that completed before an upgrade of the other
\* collection whose stream it has been given already.
C18_FullyNegotiatedInOrder ==
    [][(/\ handler' # handler
        /\ connection_event'.event \in
              {"FullyNegotiatedInbound", "FullyNegotiatedOutbound"})
         => \A i \in 1..Len(resolved) :
              (/\ resolved[i].user_data = connection_event'.info
               /\ resolved[i].dir =
                     IF connection_event'.event = "FullyNegotiatedInbound"
                     THEN "in" ELSE "out")
                => ~resolved[i].overtaken]_vars

\* The rungs of the ladder, in the order of poll.
Rungs ==
    <<"requested", "handler", "neg_out", "neg_in", "keep_alive", "shutdown",
      "muxer", "outbound", "inbound">>

\* No upgrade of the collection has completed, failed or timed out.
AllNegotiating(upgrades) ==
    \A u \in upgrades : u.upgrade = "pending" /\ now < u.timeout

\* What the step that leaves rung `rung` downwards says of the subsystem.
YieldedPending(rung) ==
    IF rung = "requested"
    THEN \A r \in requested_substreams : r.state = "Waiting" /\ now < r.timeout
    ELSE IF rung = "handler"
    THEN /\ handler' = handler /\ result' = result
         /\ \A r \in requested_substreams' : r \in requested_substreams
    ELSE IF rung = "neg_out"
    THEN AllNegotiating(negotiating_out) /\ handler' = handler
    ELSE IF rung = "neg_in"
    THEN AllNegotiating(negotiating_in) /\ handler' = handler
    ELSE IF rung = "shutdown"
    THEN \/ NonIdle
         \/ shutdown.kind = "None"
         \/ shutdown.kind = "Later" /\ now < shutdown.timer
    ELSE IF rung = "muxer"
    THEN handler' = handler /\ result' = result
    ELSE IF rung = "outbound"
    THEN negotiating_out' = negotiating_out /\ requested_substreams' = requested_substreams
    ELSE IF rung = "inbound"
    THEN /\ negotiating_in' = negotiating_in
         /\ \/ Cardinality(negotiating_in) >= max_negotiating_inbound_streams
            \/ muxing.kind = "PendingStreamMuxer"
            \/ muxing.kind = "Any" /\ muxing.inbound = 0
    ELSE TRUE

\* C19: poll returns Pending only from the last rung of the ladder, a rung is
\* reached only from the rung above it, and the step down from a rung is
\* taken only when its subsystem yielded Pending: no request resolved, the
\* handler and the muxer returned nothing, no upgrade resolved, the plan did
\* not fire, nothing was granted or accepted.
C19_PendingOnlyWhenAllPending ==
    /\ [][(result' = Pending /\ result # Pending)
            => (pc = "inbound" /\ pc' = "idle" /\ YieldedPending("inbound"))]_vars
    /\ [][\A k \in 2..Len(Rungs) :
             (pc' = Rungs[k] /\ pc # Rungs[k])
               => (pc = Rungs[k - 1] /\ YieldedPending(Rungs[k - 1]))]_vars

\* poll returned Pending with a request waiting for the muxer, an outbound
\* upgrade negotiating, a plan Later and room for an inbound substream.
C19_Witness ==
    /\ pc = "idle" /\ result = Pending
    /\ requested_substreams # {}
    /\ negotiating_out # {}
    /\ Cardinality(negotiating_in) < max_negotiating_inbound_streams
    /\ shutdown.kind = "Later"

\* The upgrade u of a collection is taken out of it in this step.
Resolved(u, upgrades) == \A v \in upgrades : v.user_data # u.user_data

\* The error, if any, with which the upgrade u ends at this instant.
StreamError(u) ==
    IF now >= u.timeout THEN "Timeout"
    ELSE IF u.upgrade = "err" THEN "Upgrade"
    ELSE ""

\* C20: an upgrade that fails or times out is taken out of its collection
\* with DialUpgradeError or ListenUpgradeError for the handler; the step that
\* delivers such an event, also for a request that timed out, returns nothing
\* and continues the ladder; and the only errors poll returns are Handler,
\* KeepAliveTimeout and IO.
C20_StreamErrorsGoToHandler ==
    /\ [][/\ \A u \in negotiating_out :
               (Resolved(u, negotiating_out') /\ StreamError(u) # "")
                  => connection_event' = DialUpgradeError(u.user_data, StreamError(u))
          /\ \A u \in negotiating_in :
               (Resolved(u, negotiating_in') /\ StreamError(u) # "")
                  => connection_event' = ListenUpgradeError(u.user_data, StreamError(u))
          /\ (/\ handler' # handler
              /\ connection_event'.event \in {"DialUpgradeError", "ListenUpgradeError"})
               => (result' = result /\ result' = ResNone /\ pc' = "requested")]_vars
    /\ [](result.kind = "Err" => result.what \in {"Handler", "KeepAliveTimeout", "IO"})

\* An inbound upgrade failed: the handler was told ListenUpgradeError and
\* the poll call goes on.
C20_Witness ==
    /\ pc = "requested"
    /\ result = ResNone
    /\ connection_event.event = "ListenUpgradeError"
    /\ connection_event.error = "Upgrade"
    /\ handler.listen[connection_event.info] = 1

\* ------------------------------------------------------------------- C21
\* C21: when the muxer's event poll yields AddressChange(A), that one step
\* both hands the handler an AddressChange event with address A and makes
\* poll return Ready(Ok(Event::AddressChange(A))); neither happens without
\* the other, and neither happens at another rung of the ladder.
C21_AddressChangeToHandlerAndCaller ==
    [][LET toHandler == connection_event'.event = "AddressChange"
           toCaller == result'.kind = "Ok" /\ result'.what = "AddressChange"
       IN  IF pc = "muxer" /\ pc' # "muxer"
           THEN /\ toHandler <=> toCaller
                /\ toHandler => /\ pc' = "idle"
                                /\ result'.val = connection_event'.address
                                /\ connection_event'.address \in 1..MaxVal
           ELSE /\ toHandler => connection_event' = connection_event
                /\ toCaller => result' = result]_vars

\* poll has returned the address change 1 that the handler was told of,
\* while upgrades are still being negotiated.
C21_Witness ==
    /\ pc = "idle"
    /\ result = ReadyOk("AddressChange", 1)
    /\ connection_event = ConnectionEvent("AddressChange", 0, "", <<>>, 1)
    /\ negotiating_in # {}

\* ------------------------------------------------------------------- C22
\* C22: when handler.poll yields Close(err), that step makes poll return
\* Err(ConnectionError::Handler(err)) with the same err at once, whatever
\* is still in RequestedSubstreams, NegotiatingOut and NegotiatingIn, which
\* are left as they are; when it yields Custom(e), poll returns
\* Ok(Event::Handler(e)).  No other rung returns a handler result.
C22_HandlerCloseAndCustom ==
    [][IF pc = "handler" /\ pc' # "handler"
       THEN /\ handler_event'.kind = "Close" =>
                  /\ pc' = "closed"
                  /\ result'.kind = "Err" /\ result'.what = "Handler"
                  /\ result'.val = handler_event'.val
                  /\ UNCHANGED <<requested_substreams, negotiating_out,
                                 negotiating_in>>
            /\ handler_event'.kind = "Custom" =>
                  /\ pc' = "idle"
                  /\ result'.kind = "Ok" /\ result'.what = "Handler"
                  /\ result'.val = handler_event'.val
            /\ handler_event'.kind \in {"Pending", "OutboundSubstreamRequest"} =>
                  /\ pc' \notin {"idle", "closed"}
                  /\ result' = result
       ELSE result'.what = "Handler" => result' = result]_vars

\* The handler closed the connection with error 1 while a request was
\* waiting for the muxer and upgrades were being negotiated in both
\* directions.
C22_Witness ==
    /\ pc = "closed"
    /\ handler_event = [kind |-> "Close", val |-> 1]
    /\ result = [kind |-> "Err", what |-> "Handler", val |-> 1]
    /\ requested_substreams # {}
    /\ negotiating_out # {}
    /\ negotiating_in # {}

\* ------------------------------------------------------------------- C23
\* C23: the ConnectionIds returned by ConnectionId::next() are pairwise
\* distinct and strictly increasing in the order of allocation, whichever
\* threads make the calls and however the calls interleave; the first is 1
\* and none is 0.
C23_IdsDistinctIncreasing ==
    \A i \in 1..Len(allocated) :
        /\ allocated[i].id # 0
        /\ i = 1 => allocated[i].id = 1
        /\ \A j \in 1..Len(allocated) :
              /\ i # j => allocated[i].id # allocated[j].id
              /\ i < j => allocated[i].id < allocated[j].id

\* Three threads have taken turns: the second caller got its id between
\* two ids of the first, and a third thread got the last one.
C23_Witness ==
    /\ Len(allocated) = 4
    /\ allocated[1].caller = allocated[3].caller
    /\ allocated[2].caller # allocated[1].caller
    /\ allocated[4].caller \notin {allocated[1].caller, allocated[2].caller}
    /\ allocated[4].id = 4

\* ------------------------------------------------------------------- C24
\* What a SubstreamUpgrade resolves with at this instant: "" while it is
\* pending, the timeout before the upgrade.
Resolution(u) ==
    IF now >= u.timeout THEN "Timeout"
    ELSE IF u.upgrade = "ok" THEN "Ok"
    ELSE IF u.upgrade = "err" THEN "Upgrade"
    ELSE ""

\* C24: a SubstreamUpgrade polls its timeout before its upgrade: an upgrade
\* taken out of NegotiatingOut or NegotiatingIn when its timeout has elapsed
\* gives the handler (user_tag, Err(Timeout)) even if its upgrade is ready
\* too; otherwise it gives (user_tag, Ok) or (user_tag, Err(Upgrade)) as the
\* upgrade says; one that is neither timed out nor ready is not taken out;
\* and an upgrade still in a collection has not resolved before, so that no
\* SubstreamUpgrade is polled after it resolved.
C24_TimeoutBeforeUpgrade ==
    /\ [][/\ \A u \in negotiating_out :
               Resolved(u, negotiating_out')
                 => /\ Resolution(u) # ""
                    /\ connection_event' =
                         IF Resolution(u) = "Ok"
                         THEN FullyNegotiatedOutbound(u.user_data)
                         ELSE DialUpgradeError(u.user_data, Resolution(u))
                    /\ handler'.dial[u.user_data] = 1
          /\ \A u \in negotiating_in :
               Resolved(u, negotiating_in')
                 => /\ Resolution(u) # ""
                    /\ connection_event' =
                         IF Resolution(u) = "Ok"
                         THEN FullyNegotiatedInbound(u.user_data)
                         ELSE ListenUpgradeError(u.user_data, Resolution(u))
                    /\ handler'.listen[u.user_data] = 1]_vars
    /\ [](/\ \A u \in negotiating_out : handler.dial[u.user_data] = 0
          /\ \A u \in negotiating_in : handler.listen[u.user_data] = 0)

\* Two outbound upgrades were ready when their timeouts had elapsed: the
\* handler has just been given the Timeout of the first, and the second is
\* still to be polled.
C24_Witness ==
    /\ pc = "requested"
    /\ handler_event = HandlerPending
    /\ connection_event = DialUpgradeError(1, "Timeout")
    /\ handler.dial[1] = 1
    /\ \A u \in negotiating_out : u.user_data # 1
    /\ \E u \in negotiating_out : u.upgrade = "ok" /\ now >= u.timeout
    /\ \E e \in DOMAIN resolved : resolved[e].dir = "out"

\* ------------------------------------------------------------------- C25
\* The elements of a collection after the step that were not in it before.
Entered(after, before) ==
    {u \in after : \A v \in before : v.user_data # u.user_data}

\* C25: an outbound request has one timer from end to end: it is set to the
\* request's timeout when the handler makes the request, it is not changed
\* while the request waits for the muxer, and the upgrade that extraction
\* puts into NegotiatingOut carries that same timer, which stays as it is
\* during the negotiation; the timer of an inbound upgrade is set to the
\* protocol's timeout at the instant the substream is accepted.
C25_OneTimerPerRequest ==
    [][/\ \A r \in Entered(requested_substreams', requested_substreams) :
             /\ pc = "handler" /\ handler_event'.kind = "OutboundSubstreamRequest"
             /\ r.timeout = now + handler_event'.val
       /\ \A r \in requested_substreams : \A q \in requested_substreams' :
             q.user_data = r.user_data => q.timeout = r.timeout
       /\ \A u \in Entered(negotiating_out', negotiating_out) :
             /\ pc = "outbound"
             /\ \E r \in requested_substreams :
                   /\ r.user_data = u.user_data
                   /\ r.state = "Waiting"
                   /\ u.timeout = r.timeout
       /\ \A u \in negotiating_out \cup negotiating_in :
             \A v \in negotiating_out' \cup negotiating_in' :
                v.user_data = u.user_data /\ (u \in negotiating_out <=> v \in negotiating_out')
                  => v.timeout = u.timeout
       /\ \A u \in Entered(negotiating_in', negotiating_in) :
             /\ pc = "inbound"
             /\ u.timeout - now \in 1..MaxDur]_vars

\* A request has been extracted and its upgrade carries the request's timer,
\* which has fired by now; an inbound upgrade is being negotiated as well.
C25_Witness ==
    /\ pc = "requested"
    /\ \E r \in requested_substreams : \E u \in negotiating_out :
          /\ r.state = "Done" /\ u.user_data = r.user_data
          /\ u.timeout = r.timeout /\ u.timeout <= now
    /\ negotiating_in # {}

\* ------------------------------------------------------------------- C26
\* The handler's last poll in this call returned an event or a request.
HandlerReady == handler_event.kind \in {"Custom", "Close", "OutboundSubstreamRequest"}

\* C26: a handler that is ready starves the negotiation: the step in
\* which handler.poll returns a Custom event or an OutboundSubstreamRequest
\* returns from poll or restarts the ladder, leaving NegotiatingOut and
\* NegotiatingIn as they are; the rungs below the handler are reached only
\* through a handler poll that returned Pending; so an upgrade is taken out
\* of NegotiatingOut or NegotiatingIn, and an inbound substream is accepted,
\* only in a pass whose handler poll returned Pending.
C26_ReadyHandlerStarvesNegotiation ==
    /\ [][(pc = "handler" /\ pc' # "handler"
             /\ handler_event'.kind \in {"Custom", "OutboundSubstreamRequest"})
            => /\ pc' \in {"idle", "requested"}
               /\ UNCHANGED <<negotiating_out, negotiating_in, muxing>>
               /\ connection_event'.event = "none"]_vars
    /\ [][(pc' = "neg_out" /\ pc # "neg_out")
            => (pc = "handler" /\ handler_event' = HandlerPending)]_vars
    /\ [][(\/ \E u \in negotiating_out : Resolved(u, negotiating_out')
           \/ \E u \in negotiating_in : Resolved(u, negotiating_in')
           \/ Entered(negotiating_in', negotiating_in) # {})
            => (~HandlerReady /\ handler_event = HandlerPending
                /\ handler_event' = handler_event)]_vars

\* poll returned a handler event while an outbound upgrade had completed
\* in time and an inbound substream was waiting at the muxer under a free
\* cap: neither was looked at.
C26_Witness ==
    /\ pc = "idle"
    /\ handler_event = [kind |-> "Custom", val |-> 1]
    /\ result = ReadyOk("Handler", 1)
    /\ \E u \in negotiating_out : u.upgrade = "ok" /\ now < u.timeout
    /\ muxing.inbound > 0
    /\ Cardinality(negotiating_in) < max_negotiating_inbound_streams

\* ------------------------------------------------------------------- C27
\* C27: poll never returns Err(KeepAliveTimeout) from a pass in which
\* connection_keep_alive() returned Yes.  KeepAliveTimeout comes from the
\* shutdown check only; the check is reached only from the keep-alive
\* evaluation of the same pass, whose answer it has at hand; and no answer
\* of an earlier pass or an earlier poll call is left over when a pass
\* starts, whether the call before returned Pending, a handler event or an
\* address change.
C27_NoTimeoutAfterYes ==
    /\ [][(result' = KeepAliveTimeout /\ result # KeepAliveTimeout)
            => /\ pc = "shutdown"
               /\ keep_alive.kind \in {"No", "Until"}
               /\ keep_alive' = keep_alive]_vars
    /\ [][(pc' = "shutdown" /\ pc # "shutdown")
            => (pc = "keep_alive" /\ keep_alive'.kind \in {"Yes", "No", "Until"})]_vars
    /\ [](pc \notin {"shutdown", "closed"} => keep_alive = NoKeepAlive)
    /\ [](result = KeepAliveTimeout => (pc = "closed" /\ keep_alive.kind # "Yes"))

\* An idle connection whose shutdown had been planned and postponed: the
\* handler has answered Yes in this pass, the plan is None, and the check
\* that follows cannot fire.
C27_Witness ==
    /\ now > 0
    /\ pc = "shutdown"
    /\ postponed
    /\ keep_alive = KeepAliveYes
    /\ shutdown = ShutdownNone
    /\ requested_substreams = {} /\ negotiating_out = {} /\ negotiating_in = {}

\* ------------------------------------------------------------------- C28
\* C28: a keep-alive deadline never fires early.  At a shutdown check made
\* when the handler's answer of the pass is Until(t) with t in the future,
\* the plan is Later with its timer and its deadline at t, whatever the
\* plan and the answers were before, and the check does not return
\* KeepAliveTimeout.
C28_DeadlineNeverEarly ==
    /\ [](pc = "shutdown" /\ keep_alive.kind = "Until" /\ keep_alive.t > now
            => shutdown = ShutdownLater(keep_alive.t, keep_alive.t))
    /\ [][(pc = "shutdown" /\ pc' # "shutdown"
             /\ keep_alive.kind = "Until" /\ keep_alive.t > now)
            => (pc' = "muxer" /\ result' = result /\ result' # KeepAliveTimeout)]_vars

\* At instant 1 the check of an idle connection has let a plan Later pass
\* whose deadline 2, the handler's answer of this pass, has not come.
C28_Witness ==
    /\ now = 1
    /\ pc = "muxer"
    /\ result = ResNone
    /\ shutdown = [kind |-> "Later", timer |-> 2, deadline |-> 2]
    /\ requested_substreams = {} /\ negotiating_out = {} /\ negotiating_in = {}

\* ------------------------------------------------------------------- C29
\* poll is not running: it has not been called yet, or it has returned.
Returned == pc \in {"idle", "closed"}

\* The last driver step took an inbound upgrade out of NegotiatingIn.
InboundResolved ==
    connection_event.event \in {"FullyNegotiatedInbound", "ListenUpgradeError"}

====
